---- MODULE Spec2Model ----
(***************************************************************************)
(* Model of package sl (matrix.go): a sparse symmetric / lower triangular  *)
(* matrix kept either in triplet format or in compressed-column format,    *)
(* with the operations New, Put and TransformTo.                           *)
(*                                                                         *)
(* float64 values are modelled as a class ("num", "nan", "inf") and, for   *)
(* the class "num", an integer; only "num" values are ever stored, so the  *)
(* arrays hold integers.  Sequences are 1-based: position i of the Go      *)
(* slice is element i+1 here.                                              *)
(***************************************************************************)
EXTENDS Integers, Sequences, FiniteSets, TLC

\* ------------------------------------------------------------------ bounds
\* the largest size New is called with
MaxSize == 2
\* the most entries Put stores in the matrix of Spec
MaxPuts == 2
\* the most entries of the triplet matrices SpecConv converts
MaxEntries == 3

\* ------------------------------------------------------- MatrixType (iota)
Ssm == 1
Sltm == 2
Tm == 3

\* every MatrixType the caller can pass that the model distinguishes:
\* the ignored zero value, the three named formats and one unnamed value
MatrixTypes == {0, Ssm, Sltm, Tm, 4}

\* ------------------------------------------------------------ input values
Num(n) == [cls |-> "num", n |-> n]
NaN == [cls |-> "nan", n |-> 0]
Inf == [cls |-> "inf", n |-> 0]
IsNaN(x) == x.cls = "nan"
IsInf(x) == x.cls = "inf"
\* x != 0.0 : NaN and the infinities differ from zero
NotZero(x) == x.cls # "num" \/ x.n # 0

\* the sizes New is called with, the indexes Put is called with on a matrix
\* of size n (one below and one above the valid range included), the values
Sizes == (0 - 1)..MaxSize
Indexes(n) == (0 - 1)..n
Floats == {Num(0 - 1), Num(0), Num(1), NaN, Inf}

VARIABLES
    alloc,      \* m != nil : New has returned a matrix
    Format,     \* m.Format
    Size,       \* m.Size
    Values,     \* m.Values
    RowIndexes, \* m.RowIndexes
    ColPos,     \* m.ColPos
    last,       \* the last call: operation, where it returned, what it returned
    puts        \* history: <<row, col, value>> of the Puts that stored an entry

vars == <<alloc, Format, Size, Values, RowIndexes, ColPos, last, puts>>

\* the matrix behind the pointer m, as one record
Matrix(f, n, v, r, c) ==
    [Format |-> f, Size |-> n, Values |-> v, RowIndexes |-> r, ColPos |-> c]
Cur == Matrix(Format, Size, Values, RowIndexes, ColPos)

\* the outcome of a call: the matrix after it, "nil" / "error" / "panic",
\* the messages of the returned error tree, the return site
Outcome(m, ret, msgs, at) == [m |-> m, ret |-> ret, msgs |-> msgs, at |-> at]

\* errors.Tree : Add appends one error, IsError reports a non-empty tree
Add(et, msg) == Append(et, msg)
IsError(et) == Len(et) > 0

\* --------------------------------------------------------------------- New
\* make([]T, 0, s) faults at run time when s is negative
NewFaults(s) == s < 0

NewMatrix(s) == Matrix(Tm, s, <<>>, <<>>, <<>>)

\* --------------------------------------------------------------------- Put
\* if cond { et.Add(msg) }
AddIf(et, cond, msg) == IF cond THEN Add(et, msg) ELSE et

IndexValueCheck(size, r, c, x) ==
    AddIf(AddIf(AddIf(AddIf(AddIf(AddIf(AddIf(<<>>,
        r < 0, "rowNegative"),
        r >= size, "rowOutside"),
        c < 0, "colNegative"),
        c >= size, "colOutside"),
        r < c, "aboveDiagonal"),
        IsNaN(x), "nan"),
        IsInf(x), "infinity")

\* the error tree that Put builds before it touches the matrix
PutCheck(isnil, m, r, c, x) ==
    IF isnil THEN Add(<<>>, "nil")
    ELSE IF m.Format # Tm THEN Add(<<>>, "notTriplet")
    ELSE IndexValueCheck(m.Size, r, c, x)

\* mutant: the row goes to ColPos and the column to RowIndexes
PutAppend_Crossed(m, r, c, x) ==
    IF NotZero(x)
    THEN [m EXCEPT !.RowIndexes = Append(@, c),
                   !.ColPos = Append(@, r),
                   !.Values = Append(@, x.n)]
    ELSE m

\* mutant: a zero value is stored like any other
PutAppend_KeepsZero(m, r, c, x) ==
    [m EXCEPT !.RowIndexes = Append(@, r),
              !.ColPos = Append(@, c),
              !.Values = Append(@, x.n)]

\* the append of a Put that passed the checks
PutAppend(m, r, c, x) ==
    IF NotZero(x)
    THEN [m EXCEPT !.RowIndexes = Append(@, r),
                   !.ColPos = Append(@, c),
                   !.Values = Append(@, x.n)]
    ELSE m

\* mutant: the entry is appended before the error tree is looked at
PutOp_AppendsFirst(isnil, m, r, c, x) ==
    LET et == PutCheck(isnil, m, r, c, x) IN
    IF IsError(et)
    THEN Outcome(IF isnil \/ x.cls # "num" THEN m ELSE PutAppend(m, r, c, x),
                 "error", et, "check")
    ELSE Outcome(PutAppend(m, r, c, x), "nil", <<>>,
                 IF NotZero(x) THEN "stored" ELSE "ignored")

PutOp(isnil, m, r, c, x) ==
    LET et == PutCheck(isnil, m, r, c, x) IN
    IF IsError(et) THEN Outcome(m, "error", et, "check")
    ELSE Outcome(PutAppend(m, r, c, x), "nil", <<>>,
                 IF NotZero(x) THEN "stored" ELSE "ignored")

\* ------------------------------------------------------------- TransformTo
\* the error tree that TransformTo builds before it touches the matrix
TransformCheck(isnil, mt) ==
    IF isnil THEN Add(<<>>, "nil")
    ELSE IF mt \in {Ssm, Sltm, Tm} THEN <<>>
    ELSE Add(<<>>, "notValidType")

Swap(s, i, j) == [s EXCEPT ![i] = s[j], ![j] = s[i]]

\* The working state of the conversion: the three slices of the matrix as
\* they are mutated in place, whether a run-time fault has stopped it, and the
\* locals of the sort in progress (result of the last less, two indexes, the
\* swap count of choosePivot, the flag a partition returns).
Work(v, r, c, fault) ==
    [V |-> v, R |-> r, C |-> c, fault |-> fault,
     lt |-> FALSE, i |-> 0, j |-> 0, swaps |-> 0, done |-> FALSE]
Fault(w) == [w EXCEPT !.fault = TRUE]

\* The slice a sort.Slice call sorts: m.ColPos (byCol) or
\* m.RowIndexes[off:..]; position k of it is element off + k + 1 here.
SortOf(byCol, off) == [byCol |-> byCol, off |-> off]
At(ctx, k) == ctx.off + k + 1

\* The less closures: less(i, j) compares the keys and, when it is about to
\* return true, swaps Values (and, for the sort by column, RowIndexes) at the
\* two positions.  The indexes are evaluated before anything is assigned.
Less(w, ctx, i, j) ==
    LET p == At(ctx, i)
        q == At(ctx, j)
    IN  IF ctx.byCol
        THEN IF w.C[p] < w.C[q]
             THEN IF p > Len(w.V) \/ q > Len(w.V) \/ p > Len(w.R) \/ q > Len(w.R)
                  THEN Fault(w)
                  ELSE [w EXCEPT !.V = Swap(@, p, q), !.R = Swap(@, p, q),
                                 !.lt = TRUE]
             ELSE [w EXCEPT !.lt = FALSE]
        ELSE IF w.R[p] < w.R[q]
             THEN IF p > Len(w.V) \/ q > Len(w.V)
                  THEN Fault(w)
                  ELSE [w EXCEPT !.V = Swap(@, p, q), !.lt = TRUE]
             ELSE [w EXCEPT !.lt = FALSE]

\* the swap sort.Slice itself makes: on the sorted slice alone
SwapKey(w, ctx, i, j) ==
    IF ctx.byCol THEN [w EXCEPT !.C = Swap(@, At(ctx, i), At(ctx, j))]
    ELSE [w EXCEPT !.R = Swap(@, At(ctx, i), At(ctx, j))]

\* sort.Slice, as the sort package (Go 1.19 and later) runs it on a slice of
\* at most maxInsertion + 1 elements; longer slices do not occur in this model.
maxInsertion == 12

\* insertion sort: for i := a+1; i < b; i++ {
\*                     for j := i; j > a && less(j, j-1); j-- { swap(j, j-1) } }
RECURSIVE InsertionInner(_, _, _, _)
InsertionInner(w, ctx, a, j) ==
    IF w.fault \/ j <= a THEN w
    ELSE LET l == Less(w, ctx, j, j - 1) IN
         IF l.fault \/ ~l.lt THEN l
         ELSE InsertionInner(SwapKey(l, ctx, j, j - 1), ctx, a, j - 1)

RECURSIVE InsertionFrom(_, _, _, _, _)
InsertionFrom(w, ctx, a, i, b) ==
    IF w.fault \/ i >= b THEN w
    ELSE InsertionFrom(InsertionInner(w, ctx, a, i), ctx, a, i + 1, b)

insertionSort(w, ctx, a, b) == InsertionFrom(w, ctx, a, a + 1, b)

\* order2: if less(b, a) { swaps++; return b, a }; return a, b
\* the pair is returned in the fields i, j
order2(w, ctx, a, b) ==
    LET l == Less(w, ctx, b, a) IN
    IF l.fault THEN l
    ELSE IF l.lt THEN [l EXCEPT !.i = b, !.j = a, !.swaps = @ + 1]
    ELSE [l EXCEPT !.i = a, !.j = b]

\* median of positions a, b, c:
\*     a, b = order2(a, b); b, c = order2(b, c); a, b = order2(a, b); return b
\* the median is returned in the field i
medianReturn(s3) == IF s3.fault THEN s3 ELSE [s3 EXCEPT !.i = s3.j]

medianThird(s2, ctx, a) ==
    IF s2.fault THEN s2 ELSE medianReturn(order2(s2, ctx, a, s2.i))

medianSecond(s1, ctx, c) ==
    IF s1.fault THEN s1 ELSE medianThird(order2(s1, ctx, s1.j, c), ctx, s1.i)

median(w, ctx, a, b, c) == medianSecond(order2(w, ctx, a, b), ctx, c)

\* choosePivot on fewer than 50 elements: the median of the elements at
\* a + l/4, a + 2*(l/4), a + 3*(l/4) when l >= 8; pivot in i, swap count in swaps
choosePivot(w, ctx, a, b) ==
    LET l == b - a
        q == l \div 4
        w0 == [w EXCEPT !.swaps = 0]
    IN  IF l >= 8 THEN median(w0, ctx, a + q, a + 2 * q, a + 3 * q)
        ELSE [w0 EXCEPT !.i = a + 2 * q]

\* partialInsertionSort on fewer than 50 elements: one scan
\* for i < b && !less(i, i-1) { i++ }; done reports i == b
RECURSIVE ScanSorted(_, _, _, _)
ScanSorted(w, ctx, i, b) ==
    IF w.fault THEN w
    ELSE IF i >= b THEN [w EXCEPT !.done = TRUE]
    ELSE LET l == Less(w, ctx, i, i - 1) IN
         IF l.fault THEN l
         ELSE IF l.lt THEN [l EXCEPT !.done = FALSE]
         ELSE ScanSorted(l, ctx, i + 1, b)

partialInsertionSort(w, ctx, a, b) == ScanSorted(w, ctx, a + 1, b)

\* for i <= j && less(i, a) { i++ } ; the new i is returned in the field i
RECURSIVE ScanUp(_, _, _, _, _)
ScanUp(w, ctx, a, i, j) ==
    IF w.fault THEN w
    ELSE IF i > j THEN [w EXCEPT !.i = i]
    ELSE LET l == Less(w, ctx, i, a) IN
         IF l.fault THEN l
         ELSE IF l.lt THEN ScanUp(l, ctx, a, i + 1, j)
         ELSE [l EXCEPT !.i = i]

\* for i <= j && !less(j, a) { j-- } ; the new j is returned in the field j
RECURSIVE ScanDown(_, _, _, _, _)
ScanDown(w, ctx, a, i, j) ==
    IF w.fault THEN w
    ELSE IF i > j THEN [w EXCEPT !.j = j]
    ELSE LET l == Less(w, ctx, j, a) IN
         IF l.fault THEN l
         ELSE IF l.lt THEN [l EXCEPT !.j = j]
         ELSE ScanDown(l, ctx, a, i, j - 1)

\* the for loop of partition: scan up, scan down, swap, until i > j
RECURSIVE PartitionLoop(_, _, _, _, _)
PartitionSwap(d, ctx, a) ==
    IF d.fault THEN d
    ELSE IF d.i > d.j THEN d
    ELSE PartitionLoop(SwapKey(d, ctx, d.i, d.j), ctx, a, d.i + 1, d.j - 1)

PartitionDown(u, ctx, a, j) ==
    IF u.fault THEN u ELSE PartitionSwap(ScanDown(u, ctx, a, u.i, j), ctx, a)

PartitionLoop(w, ctx, a, i, j) == PartitionDown(ScanUp(w, ctx, a, i, j), ctx, a, j)

\* partition: the new position of the pivot is returned in the field j,
\* alreadyPartitioned in the field done
partitionReturn(e, ctx, a) ==
    IF e.fault THEN e ELSE [SwapKey(e, ctx, e.j, a) EXCEPT !.done = FALSE]

partitionFirst(d, ctx, a) ==
    IF d.fault THEN d
    ELSE IF d.i > d.j THEN [SwapKey(d, ctx, d.j, a) EXCEPT !.done = TRUE]
    ELSE partitionReturn(
             PartitionLoop(SwapKey(d, ctx, d.i, d.j), ctx, a, d.i + 1, d.j - 1),
             ctx, a)

partitionDown(u, ctx, a, b) ==
    IF u.fault THEN u ELSE partitionFirst(ScanDown(u, ctx, a, u.i, b - 1), ctx, a)

partition(w, ctx, a, b, pivot) ==
    partitionDown(ScanUp(SwapKey(w, ctx, a, pivot), ctx, a, a + 1, b - 1), ctx, a, b)

\* pdqsort(data, 0, n, limit): at most maxInsertion elements are insertion
\* sorted; maxInsertion + 1 elements are partitioned once around the chosen
\* pivot (unless the scan finds them sorted already) and each side, being at
\* most maxInsertion long, is insertion sorted, the shorter side first.
pdqsortSides(pt, ctx, n) ==
    IF pt.fault THEN pt
    ELSE IF pt.j < n - pt.j
    THEN insertionSort(insertionSort(pt, ctx, 0, pt.j), ctx, pt.j + 1, n)
    ELSE insertionSort(insertionSort(pt, ctx, pt.j + 1, n), ctx, 0, pt.j)

pdqsortPartition(ps, ctx, n, pivot) ==
    IF ps.fault \/ ps.done THEN ps
    ELSE pdqsortSides(partition(ps, ctx, 0, n, pivot), ctx, n)

pdqsortPivot(cp, ctx, n) ==
    IF cp.fault THEN cp
    ELSE pdqsortPartition(IF cp.swaps = 0 THEN partialInsertionSort(cp, ctx, 0, n)
                          ELSE [cp EXCEPT !.done = FALSE],
                          ctx, n, cp.i)

pdqsort(w, ctx, n) ==
    IF n <= maxInsertion THEN insertionSort(w, ctx, 0, n)
    ELSE pdqsortPivot(choosePivot(w, ctx, 0, n), ctx, n)

\* sort.Slice(m.ColPos, less)
SortByCol(w) == pdqsort(w, SortOf(TRUE, 0), Len(w.C))

\* compressCol, first loop: cp[colpos[i]+1]++ ; the index faults outside cp
RECURSIVE CountCols(_, _, _)
CountCols(cp, colpos, i) ==
    IF i > Len(colpos) THEN [cp |-> cp, fault |-> FALSE]
    ELSE LET idx == colpos[i] + 1 IN
         IF idx < 0 \/ idx >= Len(cp) THEN [cp |-> cp, fault |-> TRUE]
         ELSE CountCols([cp EXCEPT ![idx + 1] = @ + 1], colpos, i + 1)

\* compressCol, second loop: cp[i] += cp[i-1] for i >= 1
RECURSIVE CumSum(_, _)
CumSum(cp, i) ==
    IF i > Len(cp) THEN cp
    ELSE CumSum([cp EXCEPT ![i] = @ + cp[i - 1]], i + 1)

compressCol(colpos, size) ==
    LET counted == CountCols([k \in 1..(size + 1) |-> 0], colpos, 1) IN
    IF counted.fault THEN counted
    ELSE [cp |-> CumSum(counted.cp, 2), fault |-> FALSE]

\* for k := 1; k < len(cp); k++ { sort.Slice(m.RowIndexes[cp[k-1]:cp[k]], ..) }
\* The slice expression faults when cp[k] exceeds the capacity of RowIndexes
\* or cp[k-1] > cp[k].  cp[k] exceeds the length only when the matrix is in a
\* compressed format, where RowIndexes was made with capacity = length.
RECURSIVE SortByRow(_, _, _)
SortByRow(w, cp, k) ==
    IF w.fault \/ k >= Len(cp) THEN w
    ELSE LET lo == cp[k]
             hi == cp[k + 1]
         IN  IF hi > Len(w.R) \/ lo > hi THEN Fault(w)
             ELSE SortByRow(pdqsort(w, SortOf(FALSE, lo), hi - lo), cp, k + 1)

\* for i := range m.Values: an entry at the cell of its predecessor takes the
\* predecessor's value on top of its own and zeroes the predecessor
RECURSIVE Coalesce(_, _)
Coalesce(w, i) ==
    IF w.fault \/ i > Len(w.V) THEN w
    ELSE IF i > Len(w.C) THEN Fault(w)
    ELSE IF w.C[i] # w.C[i - 1] \/ w.R[i] # w.R[i - 1] THEN Coalesce(w, i + 1)
    ELSE Coalesce([w EXCEPT !.V = [@ EXCEPT ![i] = w.V[i] + w.V[i - 1],
                                            ![i - 1] = 0]], i + 1)

\* the positions of the values that are not 0.0, in order
RECURSIVE NonZeroPos(_, _)
NonZeroPos(v, i) ==
    IF i > Len(v) THEN <<>>
    ELSE IF v[i] = 0 THEN NonZeroPos(v, i + 1)
    ELSE <<i>> \o NonZeroPos(v, i + 1)

\* the copy into v, r, c of the entries whose value is not 0.0
Compact(w) ==
    LET keep == NonZeroPos(w.V, 1) IN
    IF \E n \in 1..Len(keep) : keep[n] > Len(w.R) \/ keep[n] > Len(w.C)
    THEN Fault(w)
    ELSE Work([n \in 1..Len(keep) |-> w.V[keep[n]]],
              [n \in 1..Len(keep) |-> w.R[keep[n]]],
              [n \in 1..Len(keep) |-> w.C[keep[n]]], FALSE)

\* the matrix left behind by a fault: the slices as mutated so far
Faulted(m, w) ==
    Outcome([m EXCEPT !.Values = w.V, !.RowIndexes = w.R, !.ColPos = w.C],
            "panic", <<>>, "fault")

\* the code after the two simple transformations, last step first:
\* m.ColPos = compressCol(c); m.Format = mt
CompressReturn(m, mt, w3, w4, cc) ==
    IF cc.fault THEN Faulted(m, [w3 EXCEPT !.V = w4.V, !.R = w4.R])
    ELSE Outcome(Matrix(mt, m.Size, w4.V, w4.R, cc.cp), "nil", <<>>, "compress")

\* drop the entries whose value is 0.0
CompressCompact(m, mt, w3, w4) ==
    IF w4.fault THEN Faulted(m, w3)
    ELSE CompressReturn(m, mt, w3, w4, compressCol(w4.C, m.Size))

\* sum the entries of equal cells
CompressCoalesce(m, mt, w3) ==
    IF w3.fault THEN Faulted(m, w3) ELSE CompressCompact(m, mt, w3, Compact(w3))

\* sort by row in each column
CompressRows(m, mt, w2) ==
    IF w2.fault THEN Faulted(m, w2) ELSE CompressCoalesce(m, mt, Coalesce(w2, 2))

\* cp := compressCol(m.ColPos)
CompressColPos(m, mt, w1, cp) ==
    IF cp.fault THEN Faulted(m, w1) ELSE CompressRows(m, mt, SortByRow(w1, cp.cp, 1))

\* sort by column
CompressCols(m, mt, w1) ==
    IF w1.fault THEN Faulted(m, w1)
    ELSE CompressColPos(m, mt, w1, compressCol(w1.C, m.Size))

Compress(m, mt) ==
    CompressCols(m, mt, SortByCol(Work(m.Values, m.RowIndexes, m.ColPos, FALSE)))

\* matrix types(formats) are same
SameFormat(m, mt) == m.Format = mt

\* mutant: only the direction Ssm -> Sltm is taken as a relabeling
Relabel_OneWay(m, mt) == m.Format = Ssm /\ mt = Sltm

\* matrix transformation without any changing
Relabel(m, mt) ==
    (m.Format = Ssm /\ mt = Sltm) \/ (m.Format = Sltm /\ mt = Ssm)

TransformToOp(isnil, m, mt) ==
    LET et == TransformCheck(isnil, mt) IN
    IF IsError(et) THEN Outcome(m, "error", et, "check")
    ELSE IF SameFormat(m, mt) THEN Outcome(m, "nil", <<>>, "same")
    ELSE IF Relabel(m, mt)
    THEN Outcome([m EXCEPT !.Format = mt], "nil", <<>>, "relabel")
    ELSE Compress(m, mt)

Init ==
    /\ alloc = FALSE
    /\ Format = 0
    /\ Size = 0
    /\ Values = <<>>
    /\ RowIndexes = <<>>
    /\ ColPos = <<>>
    /\ last = [op |-> "none", ret |-> "nil", at |-> "none", arg |-> 0]
    /\ puts = <<>>

Returns(op, res, arg) ==
    /\ Format' = res.m.Format
    /\ Size' = res.m.Size
    /\ Values' = res.m.Values
    /\ RowIndexes' = res.m.RowIndexes
    /\ ColPos' = res.m.ColPos
    /\ last' = [op |-> op, ret |-> res.ret, at |-> res.at, arg |-> arg]

New(s) ==
    /\ ~alloc
    /\ last.ret # "panic"
    /\ IF NewFaults(s)
       THEN /\ Returns("New", Outcome(Cur, "panic", <<>>, "make"), s)
            /\ UNCHANGED <<alloc, puts>>
       ELSE /\ Returns("New", Outcome(NewMatrix(s), "nil", <<>>, "return"), s)
            /\ alloc' = TRUE
            /\ UNCHANGED puts

Put(r, c, x) ==
    LET res == PutOp(~alloc, Cur, r, c, x) IN
    /\ last.ret # "panic"
    /\ Len(res.m.Values) <= MaxPuts
    /\ Returns("Put", res, 0)
    /\ puts' = IF res.at = "stored" THEN Append(puts, <<r, c, x.n>>) ELSE puts
    /\ UNCHANGED alloc

TransformTo(mt) ==
    /\ last.ret # "panic"
    /\ Returns("TransformTo", TransformToOp(~alloc, Cur, mt), mt)
    /\ UNCHANGED <<alloc, puts>>

Next ==
    \/ \E s \in Sizes : New(s)
    \/ \E mt \in MatrixTypes : TransformTo(mt)
    \/ \E r \in Indexes(Size), c \in Indexes(Size), x \in Floats : Put(r, c, x)

Spec == Init /\ [][Next]_vars

\* ---------------------------------------------------------------- SpecConv
\* The conversion on its own: the matrix starts as any triplet matrix that
\* New(n) and at most MaxEntries storing Puts build (the entries of such a
\* matrix are the stored Puts in call order), and TransformTo is applied.
Cells(n) == {rc \in (0..(n - 1)) \X (0..(n - 1)) : rc[2] <= rc[1]}

InitConv ==
    \E n \in 0..MaxSize, k \in 0..MaxEntries :
        \E e \in [1..k -> Cells(n) \X {0 - 1, 1}] :
            /\ alloc = TRUE
            /\ Format = Tm
            /\ Size = n
            /\ Values = [i \in 1..k |-> e[i][2]]
            /\ RowIndexes = [i \in 1..k |-> e[i][1][1]]
            /\ ColPos = [i \in 1..k |-> e[i][1][2]]
            /\ puts = [i \in 1..k |-> <<e[i][1][1], e[i][1][2], e[i][2]>>]
            /\ last = [op |-> IF k = 0 THEN "New" ELSE "Put", ret |-> "nil",
                       at |-> IF k = 0 THEN "return" ELSE "stored",
                       arg |-> IF k = 0 THEN n ELSE 0]

NextConv == \E mt \in MatrixTypes : TransformTo(mt)

SpecConv == InitConv /\ [][NextConv]_vars

\* --------------------------------------------------------------- SpecLarge
\* The conversion of a matrix with one entry more than sort.Slice insertion
\* sorts: New(MaxSize) and maxInsertion + 1 storing Puts, all to one cell with
\* value 1 but for one Put, at any place in the sequence, to any cell with
\* value 2.
InitLarge ==
    \E base \in Cells(MaxSize), other \in Cells(MaxSize), p \in 1..(maxInsertion + 1) :
        LET e == [i \in 1..(maxInsertion + 1) |->
                     IF i = p THEN <<other[1], other[2], 2>>
                     ELSE <<base[1], base[2], 1>>]
        IN  /\ alloc = TRUE
            /\ Format = Tm
            /\ Size = MaxSize
            /\ Values = [i \in 1..Len(e) |-> e[i][3]]
            /\ RowIndexes = [i \in 1..Len(e) |-> e[i][1]]
            /\ ColPos = [i \in 1..Len(e) |-> e[i][2]]
            /\ puts = e
            /\ last = [op |-> "Put", ret |-> "nil", at |-> "stored", arg |-> 0]

SpecLarge == InitLarge /\ [][NextConv]_vars

\* ================================================================== claims
Range(s) == {s[i] : i \in 1..Len(s)}
Compressed == {Ssm, Sltm}

\* the sum of the values Put to cell (r, c), over history h from position i
RECURSIVE SumAt(_, _, _, _)
SumAt(h, r, c, i) ==
    IF i > Len(h) THEN 0
    ELSE (IF h[i][1] = r /\ h[i][2] = c THEN h[i][3] ELSE 0) + SumAt(h, r, c, i + 1)

\* the cells of the lower triangle of size n, by column and then by row
RECURSIVE ColumnMajor(_, _, _)
ColumnMajor(n, c, r) ==
    IF c >= n THEN <<>>
    ELSE IF r >= n THEN ColumnMajor(n, c + 1, c + 1)
    ELSE <<<<r, c>>>> \o ColumnMajor(n, c, r + 1)

\* the cells whose sum over h is not zero, by column and then by row
LiveCells(h, n) ==
    LET Live(rc) == SumAt(h, rc[1], rc[2], 1) # 0
    IN  SelectSeq(ColumnMajor(n, 0, 0), Live)

\* the compressed matrix of format f that history h on size n stands for
Canonical(f, n, h) ==
    LET cells == LiveCells(h, n) IN
    Matrix(f, n,
           [i \in 1..Len(cells) |-> SumAt(h, cells[i][1], cells[i][2], 1)],
           [i \in 1..Len(cells) |-> cells[i][1]],
           [k \in 1..(n + 1) |->
               Cardinality({i \in 1..Len(cells) : cells[i][2] < k - 1})])

\* the Puts of the package's Example, and the matrix they build
ExamplePuts ==
    <<<<2, 1, 7>>, <<0, 0, 1>>, <<1, 1, 1>>, <<1, 1, 1>>, <<1, 0, 3>>, <<2, 2, 8>>>>
RECURSIVE PutAll(_, _, _)
PutAll(m, h, i) ==
    IF i > Len(h) THEN m
    ELSE PutAll(PutOp(FALSE, m, h[i][1], h[i][2], Num(h[i][3])).m, h, i + 1)
ExampleTriplet == PutAll(NewMatrix(3), ExamplePuts, 1)

\* C1: after TransformTo(Ssm) or TransformTo(Sltm) on a matrix built by New
\* and successful Puts, the call has returned nil and the matrix holds, by
\* column and then by row, one entry per cell whose Put values sum to non-zero,
\* with that sum, and none for the other cells; the Example's six Puts on
\* size 3 give Values [1 3 2 7 8], RowIndexes [0 1 1 2 2], ColPos [0 2 4 5].
C1_ConversionSumsCells ==
    /\ (alloc /\ last.op = "TransformTo" /\ last.arg \in Compressed)
          => /\ last.ret = "nil"
             /\ Cur = Canonical(last.arg, Size, puts)
    /\ TransformToOp(FALSE, ExampleTriplet, Ssm)
          = Outcome(Matrix(Ssm, 3, <<1, 3, 2, 7, 8>>, <<0, 1, 1, 2, 2>>, <<0, 2, 4, 5>>),
                    "nil", <<>>, "compress")

\* C2: in a compressed format ColPos has Size+1 elements, starts at 0, ends
\* at len(Values) = len(RowIndexes), never decreases, and the rows of each
\* column's range increase strictly and lie between the column and Size-1.
C2_CompressedWellFormed ==
    (Format \in Compressed /\ last.ret # "panic") =>
        /\ Len(ColPos) = Size + 1
        /\ ColPos[1] = 0
        /\ ColPos[Size + 1] = Len(Values)
        /\ Len(Values) = Len(RowIndexes)
        /\ \A k \in 1..Size : ColPos[k] <= ColPos[k + 1]
        /\ \A k \in 1..Size : \A i \in (ColPos[k] + 1)..ColPos[k + 1] :
              /\ RowIndexes[i] >= k - 1
              /\ RowIndexes[i] < Size
              /\ i > ColPos[k] + 1 => RowIndexes[i - 1] < RowIndexes[i]

\* the preconditions of Put that a call violates
Violated(m, r, c, x) ==
    {p \in {"notTriplet", "rowNegative", "rowOutside", "colNegative",
            "colOutside", "aboveDiagonal", "nan", "infinity"} :
        \/ p = "notTriplet" /\ m.Format # Tm
        \/ p = "rowNegative" /\ r < 0
        \/ p = "rowOutside" /\ r >= m.Size
        \/ p = "colNegative" /\ c < 0
        \/ p = "colOutside" /\ c >= m.Size
        \/ p = "aboveDiagonal" /\ r < c
        \/ p = "nan" /\ IsNaN(x)
        \/ p = "infinity" /\ IsInf(x)}

\* C3: the error of a failing Put holds one message for each precondition the
\* call violates, whatever the format of the matrix.
C3_EveryViolationReported ==
    alloc => \A r \in Indexes(Size), c \in Indexes(Size), x \in Floats :
        LET res == PutOp(FALSE, Cur, r, c, x) IN
        res.ret = "error" =>
            /\ Range(res.msgs) = Violated(Cur, r, c, x)
            /\ Len(res.msgs) = Cardinality(Violated(Cur, r, c, x))

\* C4: a call that returns an error leaves Format, Size, Values, RowIndexes
\* and ColPos as they were before the call.
C4_ErrorLeavesMatrix ==
    [][last'.ret = "error" =>
          UNCHANGED <<alloc, Format, Size, Values, RowIndexes, ColPos>>]_vars

\* a Put was rejected on a triplet matrix that holds entries
C4_Witness ==
    /\ last.op = "Put" /\ last.ret = "error"
    /\ Format = Tm /\ Len(Values) > 0

ZeroPut(r, c) == PutOp(FALSE, Cur, r, c, Num(0))

\* C5 as claimed: Put(r, c, 0.0) with 0 <= c <= r < Size returns no error and
\* changes nothing, whatever the format of the matrix.
C5_ZeroPutNeverFails ==
    alloc => \A rc \in Cells(Size) :
        /\ ZeroPut(rc[1], rc[2]).ret = "nil"
        /\ ZeroPut(rc[1], rc[2]).m = Cur

\* C5 as amended: Put(r, c, 0.0) with 0 <= c <= r < Size changes nothing
\* whatever the format; it returns no error when the format is Triplet and
\* the not-Triplet error when the matrix is in a compressed format.
C5_ZeroPutChangesNothing ==
    alloc => \A rc \in Cells(Size) :
        /\ ZeroPut(rc[1], rc[2]).m = Cur
        /\ Format = Tm => ZeroPut(rc[1], rc[2]).ret = "nil"
        /\ Format # Tm => /\ ZeroPut(rc[1], rc[2]).ret = "error"
                          /\ ZeroPut(rc[1], rc[2]).msgs = <<"notTriplet">>

\* a Put of 0.0 returned nil on a triplet matrix that holds entries
C5_Witness ==
    /\ last.op = "Put" /\ last.at = "ignored" /\ last.ret = "nil"
    /\ Len(Values) > 0

\* C6: in triplet format the three arrays have one element per storing Put,
\* in call order, holding its value, row and column, and every entry has
\* 0 <= col <= row < Size and a non-zero value.
C6_TripletIsPutHistory ==
    (alloc /\ Format = Tm) =>
        /\ Len(Values) = Len(puts)
        /\ Len(RowIndexes) = Len(puts)
        /\ Len(ColPos) = Len(puts)
        /\ \A i \in 1..Len(puts) :
              /\ RowIndexes[i] = puts[i][1]
              /\ ColPos[i] = puts[i][2]
              /\ Values[i] = puts[i][3]
              /\ 0 <= ColPos[i] /\ ColPos[i] <= RowIndexes[i] /\ RowIndexes[i] < Size
              /\ Values[i] # 0

\* two Puts were stored, the second below the diagonal
C6_Witness ==
    /\ Format = Tm /\ last.op = "Put" /\ last.at = "stored"
    /\ Len(Values) = 2
    /\ ColPos[2] < RowIndexes[2]

\* C7: a call of TransformTo returns nil or an error; it never faults.
C7_TransformToNeverFaults ==
    last.op = "TransformTo" => last.ret \in {"nil", "error"}

\* C8: New(size) returns, for any size, an empty triplet matrix of that size,
\* and a matrix of size <= 0 rejects every Put.
C8_NewAcceptsAnySize ==
    /\ last.op = "New" =>
          /\ last.ret = "nil"
          /\ alloc
          /\ Cur = Matrix(Tm, last.arg, <<>>, <<>>, <<>>)
    /\ (alloc /\ Size <= 0) =>
          /\ Values = <<>>
          /\ \A r \in Indexes(Size), c \in Indexes(Size), x \in Floats :
                PutOp(FALSE, Cur, r, c, x).ret = "error"

Once(mt) == TransformToOp(FALSE, Cur, mt)
Twice(mt) == TransformToOp(FALSE, Once(mt).m, mt)

\* C9: for each of the three formats X, TransformTo(X) called twice leaves
\* the matrix as TransformTo(X) called once does, both calls returning nil,
\* and a call whose target is the current format changes nothing.
C9_TransformToIdempotent ==
    alloc => \A mt \in {Ssm, Sltm, Tm} :
        /\ Once(mt).ret = "nil"
        /\ Twice(mt).ret = "nil"
        /\ Twice(mt).m = Once(mt).m
        /\ mt = Format => Once(mt).m = Cur

There == TransformToOp(FALSE, Cur, IF Format = Ssm THEN Sltm ELSE Ssm)
Back == TransformToOp(FALSE, There.m, Format)

\* C10: TransformTo from one compressed format to the other returns nil and
\* changes Format alone, and transforming back restores the matrix.
C10_RelabelChangesOnlyFormat ==
    (alloc /\ Format \in Compressed) =>
        /\ There.ret = "nil"
        /\ There.m = [Cur EXCEPT !.Format = IF Format = Ssm THEN Sltm ELSE Ssm]
        /\ Back.ret = "nil"
        /\ Back.m = Cur

\* a matrix that holds entries was relabeled back to Ssm
C10_Witness ==
    /\ last.op = "TransformTo" /\ last.at = "relabel" /\ last.ret = "nil"
    /\ Format = Ssm /\ Len(Values) > 0
====
